---- MODULE Spec2Model ----
(***************************************************************************)
(* A model of the agentic decision engine: the three orchestration         *)
(* frameworks run_council, run_dxo and run_ensemble, the model-key         *)
(* registry with invoke_model, and the command-line dispatcher main.       *)
(*                                                                         *)
(* Text is a sequence of string tokens, so that "prompt p contains the     *)
(* literal text t" is a statement about contiguous sub-sequences.  One     *)
(* token stands for one literal piece of a Python f-string.                *)
(*                                                                         *)
(* A coroutine is modelled by the position where it is suspended: every    *)
(* action is the code that runs between two suspension points of the       *)
(* asyncio event loop, which is atomic with respect to the other           *)
(* coroutines.                                                             *)
(***************************************************************************)
EXTENDS Integers, Sequences, FiniteSets, TLC

----------------------------------------------------------------------------
(* Bounds of the model.                                                    *)

\* longest members / models list a caller configures
MaxMembers == 2

----------------------------------------------------------------------------
(* Inputs drawn from small sets.                                           *)

\* the question of a task
Questions == {<<"Q">>}

\* caller-supplied task ids
TaskIds == {"t1"}

\* model keys a caller may configure: two registered ones and one that is not
ModelKeys == {"small", "large", "ghost"}

\* council members a caller may configure
Members ==
    { [id |-> "alpha", model |-> "small"],
      [id |-> "beta",  model |-> "large"],
      [id |-> "gamma", model |-> "ghost"] }

\* the texts a backend may answer with
Texts == {<<"yes">>, <<"no">>}

\* framework names given on the command line
FrameworkNames == {"council", "dxo", "ensemble", "quorum"}

----------------------------------------------------------------------------
(* Sequences and text.                                                     *)

SeqsUpTo(S, n) == UNION { [1..k -> S] : k \in 0..n }

\* text t occurs literally (contiguously) in text p
Contains(p, t) ==
    \E i \in 0..(Len(p) - Len(t)) : SubSeq(p, i + 1, i + Len(t)) = t

RECURSIVE Flatten(_)
Flatten(ss) == IF ss = <<>> THEN <<>> ELSE Head(ss) \o Flatten(Tail(ss))

\* str(i) of Python for the indices the model reaches
Digits == <<"0", "1", "2", "3", "4", "5", "6", "7", "8", "9">>

RECURSIVE IntToStr(_)
IntToStr(i) == IF i < 10 THEN Digits[i + 1]
               ELSE IntToStr(i \div 10) \o Digits[(i % 10) + 1]

----------------------------------------------------------------------------
(* types.py                                                                *)

ChatMessage(role, content) == [role |-> role, content |-> content]

AgentMessage(role_id, model_key, stage, content) ==
    [role_id |-> role_id, model_key |-> model_key, stage |-> stage,
     content |-> content]

DecisionTask(id, question, framework, framework_config) ==
    [id |-> id, question |-> question, framework |-> framework,
     framework_config |-> framework_config]

DecisionResult_first_content(task_id, final_answer, messages, metadata) ==
    [task_id |-> task_id, final_answer |-> messages[1].content,
     messages |-> messages, metadata |-> metadata]

DecisionResult(task_id, final_answer, messages, metadata) ==
    [task_id |-> task_id, final_answer |-> final_answer,
     messages |-> messages, metadata |-> metadata]

ModelSpec(key, id, provider, cost_class) ==
    [key |-> key, id |-> id, provider |-> provider, cost_class |-> cost_class]

----------------------------------------------------------------------------
(* models.py: the registry and invoke_model up to the backend call.        *)

MODELS ==
    [k \in {"small", "large"} |->
        IF k = "small"
        THEN ModelSpec("small", "qwen2.5-coder:7b", "local", "free")
        ELSE ModelSpec("large", "qwen2.5-coder:32b", "local", "free")]

----------------------------------------------------------------------------
(* Prompt composition.                                                     *)

build_chair_prompt_with_model(question, members) ==
    <<"You are the chair of an expert council.",
      "Summarize consensus, disagreements, and give a final recommendation.",
      "Question:">> \o question \o <<"Expert inputs:">>
    \o Flatten([i \in DOMAIN members |->
                  <<members[i].model_key, ":">> \o members[i].content])

\* council.py build_chair_prompt: the lines joined by "\n"
build_chair_prompt(question, members) ==
    <<"You are the chair of an expert council.",
      "Summarize consensus, disagreements, and give a final recommendation.",
      "Question:">> \o question \o <<"Expert inputs:">>
    \o Flatten([i \in DOMAIN members |->
                  <<members[i].role_id, ":">> \o members[i].content])

build_agg_prompt_with_model(agent_msgs) ==
    <<"Aggregate the following anonymous answers:">>
    \o Flatten([i \in DOMAIN agent_msgs |->
                  <<agent_msgs[i].model_key, ":">> \o agent_msgs[i].content])

\* ensemble.py: agg_prompt, built by the loop over agent_msgs
build_agg_prompt(agent_msgs) ==
    <<"Aggregate the following anonymous answers:">>
    \o Flatten([i \in DOMAIN agent_msgs |->
                  <<agent_msgs[i].role_id, ":">> \o agent_msgs[i].content])

\* dxo.py: the three prompts
research_prompt(question) == <<"Research:">> \o question

critique_prompt_without_research(research) == <<"Critique this research:">>

critique_prompt(research) == <<"Critique this research:">> \o research

synthesis_prompt(question, research, critique) ==
    <<"Question:">> \o question \o <<"Research:">> \o research
    \o <<"Critique:">> \o critique
    \o <<"Produce a final decision with caveats.">>

\* [ChatMessage(role="user", content=...)]
UserMessages(content) == <<ChatMessage("user", content)>>

----------------------------------------------------------------------------
(* State.                                                                  *)

VARIABLES
    task,       \* the DecisionTask of the current run
    pc,         \* where the framework coroutine is suspended
    err,        \* the exception the run ended with ("" when none)
    bst,        \* fan-out: state of each branch task handed to asyncio.gather
    bmsg,       \* fan-out: the AgentMessage each finished branch returned
    gather,     \* the future of asyncio.gather: [state, exc]
    messages,   \* member_msgs / agent_msgs after the join; dxo's messages list
    calls,      \* every invoke_model call so far: [model_key, messages]
    sent,       \* every call_local_model call so far: [spec, messages]
    registry,   \* the module-level dict MODELS as it is now: key -> ModelSpec
    returned,   \* the DecisionResults returned to the caller by this run
    stub,       \* is call_local_model replaced by a pure stub (as the test does)?
    memo,       \* the stub, as far as it has been asked: query -> outcome
    prev,       \* the previous run: [task, calls, messages, returned]
    rerun,      \* is the current run the re-run of prev?
    breply,     \* history: what the backend answered to each branch
    mreply,     \* history: what the backend answered to the framework coroutine
    finished,   \* history: the branches in the order they finished
    late        \* history: the branches that finished after the run had failed

vars == <<task, pc, err, bst, bmsg, gather, messages, calls, sent, registry, returned,
          stub, memo, prev, rerun, breply, mreply, finished, late>>

NoTask == DecisionTask("", <<>>, "", <<>>)

NoGather == [state |-> "none", exc |-> ""]

Init ==
    /\ task = NoTask
    /\ pc = "idle"
    /\ err = ""
    /\ bst = <<>>
    /\ bmsg = <<>>
    /\ gather = NoGather
    /\ messages = <<>>
    /\ calls = <<>>
    /\ sent = <<>>
    /\ registry = MODELS
    /\ returned = <<>>
    /\ stub \in BOOLEAN
    /\ memo = <<>>
    /\ prev = [task |-> NoTask, calls |-> <<>>, messages |-> <<>>,
               returned |-> <<>>]
    /\ rerun = FALSE
    /\ breply = <<>>
    /\ mreply = <<>>
    /\ finished = <<>>
    /\ late = {}

------------------------------------------------------------\* MODELS.get(model_key) followed by "if not spec": is the key resolved?
Known(model_key) == model_key \in DOMAIN registry

----------------
(* The backend adapter call_local_model.                                   *)

\* what a backend call ends with: the text, or an exception
\* (connection error, raise_for_status, malformed body)
Outcomes == [ok : {TRUE}, text : Texts] \cup {[ok |-> FALSE, text |-> <<>>]}

Query(call) == <<call.spec.key, call.messages>>

\* the outcomes call_local_model(spec, messages) can have now
call_local_model(call) ==
    IF stub /\ Query(call) \in DOMAIN memo THEN {memo[Query(call)]} ELSE Outcomes

\* a stub is a pure function: it answers a repeated query as before
Remember(call, o) ==
    memo' = IF stub /\ Query(call) \notin DOMAIN memo
            THEN memo @@ (Query(call) :> o) ELSE memo

\* the backend call the framework coroutine itself is waiting for
MainCall == sent[Len(sent)]

----------------------------------------------------------------------------
(* models.py invoke_model, called by the framework coroutine: the call is  *)
(* logged, an unknown key raises, a known one reaches the backend and the  *)
(* coroutine suspends at nextpc.                                           *)

Raise_swallowed(e) ==
    /\ pc' = pc
    /\ err' = e
    /\ returned' = returned

Raise_partial(e) ==
    /\ pc' = "failed"
    /\ err' = e
    /\ returned' = Append(returned,
          DecisionResult(task.id, <<>>, messages, [framework |-> task.framework]))

\* the exception e leaves the framework coroutine: the run has failed and
\* nothing is returned to the caller
Raise(e) ==
    /\ pc' = "failed"
    /\ err' = e
    /\ returned' = returned

\* a stage of the framework coroutine that ends in a suspension returns nothing
Suspended == returned' = returned

invoke_model_default_spec(model_key, msgs, nextpc) ==
    /\ calls' = Append(calls, [model_key |-> model_key, messages |-> msgs])
    /\ registry' = registry
    /\ IF Known(model_key)
       THEN /\ sent' = Append(sent, [spec |-> MODELS["small"], messages |-> msgs])
            /\ pc' = nextpc
            /\ err' = err
            /\ Suspended
       ELSE /\ sent' = sent
            /\ Raise("ValueError: Unknown model")

invoke_model_registering(model_key, msgs, nextpc) ==
    /\ calls' = Append(calls, [model_key |-> model_key, messages |-> msgs])
    /\ IF Known(model_key)
       THEN /\ registry' = registry
            /\ sent' = Append(sent, [spec |-> registry[model_key], messages |-> msgs])
            /\ pc' = nextpc
            /\ err' = err
            /\ Suspended
       ELSE /\ registry' = registry @@
                  (model_key :> ModelSpec(model_key, model_key, "local", "free"))
            /\ sent' = sent
            /\ Raise("ValueError: Unknown model")

invoke_model(model_key, msgs, nextpc) ==
    /\ calls' = Append(calls, [model_key |-> model_key, messages |-> msgs])
    /\ registry' = registry
    /\ IF Known(model_key)
       THEN /\ sent' = Append(sent, [spec |-> registry[model_key], messages |-> msgs])
            /\ pc' = nextpc
            /\ err' = err
            /\ Suspended
       ELSE /\ sent' = sent
            /\ Raise("ValueError: Unknown model")

GatherOnRaise_as_result(e) ==
    IF gather.state = "pending" THEN [state |-> "result", exc |-> ""] ELSE gather

\* asyncio.gather's done-callback when a branch raised / returned
GatherOnRaise(e) ==
    IF gather.state = "pending" THEN [state |-> "exception", exc |-> e] ELSE gather

GatherOnReturn_first(i) ==
    IF gather.state = "pending" THEN [state |-> "result", exc |-> ""] ELSE gather

GatherOnReturn(i) ==
    IF gather.state = "pending" /\ \A j \in DOMAIN bst : j # i => bst[j] = "done"
    THEN [state |-> "result", exc |-> ""] ELSE gather

\* what awaiting the gather future evaluates to: the branches' results in
\* the order the coroutines were passed, whatever order they finished in
gather_as_completed == [k \in 1..Len(finished) |-> bmsg[finished[k]]]

gather_result == bmsg

NoneScheduled_ignored == TRUE

\* the event loop runs the first step of every branch task, in the order the
\* tasks were made, before any backend call ends or the gather is resumed
NoneScheduled == \A j \in DOMAIN bst : bst[j] # "scheduled"

\* the placeholder of a branch that has not returned
NoMessage == AgentMessage("", "", "", <<>>)

\* the placeholder of a backend call that has not ended
NoReply == [ok |-> FALSE, text |-> <<"(pending)">>]

AfterRaise_cancel_siblings(i) ==
    [j \in DOMAIN bst |-> IF j = i THEN "raised"
                          ELSE IF bst[j] \in {"scheduled", "inflight"}
                               THEN "cancelled" ELSE bst[j]]

AfterRaise_retry(i) == [bst EXCEPT ![i] = "scheduled"]

\* the branch tasks once branch i has raised: the exception is handed to the
\* gather future, the call is not repeated and the sibling tasks are left alone
AfterRaise(i) == [bst EXCEPT ![i] = "raised"]

\* asyncio.gather(*[...]) over n coroutines: n tasks scheduled, or an
\* already finished future when n = 0
StartGather(n) ==
    /\ bst' = [i \in 1..n |-> "scheduled"]
    /\ bmsg' = [i \in 1..n |-> NoMessage]
    /\ breply' = [i \in 1..n |-> NoReply]
    /\ gather' = IF n = 0 THEN [state |-> "result", exc |-> ""]
                 ELSE [state |-> "pending", exc |-> ""]

\* first step of a branch: invoke_model up to the backend call
BranchCall(i, model_key, msgs) ==
    /\ i \in DOMAIN bst
    /\ bst[i] = "scheduled"
    /\ \A j \in 1..(i - 1) : bst[j] # "scheduled"
    /\ calls' = Append(calls, [model_key |-> model_key, messages |-> msgs])
    /\ registry' = registry
    /\ IF Known(model_key)
       THEN /\ sent' = Append(sent, [spec |-> registry[model_key], messages |-> msgs])
            /\ bst' = [bst EXCEPT ![i] = "inflight"]
            /\ gather' = gather
            /\ finished' = finished
       ELSE /\ sent' = sent
            /\ bst' = AfterRaise(i)
            /\ gather' = GatherOnRaise("ValueError: Unknown model")
            /\ finished' = Append(finished, i)
    /\ UNCHANGED <<task, pc, err, bmsg, messages, returned, stub, memo, prev, rerun,
                   breply, mreply, late>>

\* second step of a branch: the backend call ends, the branch returns its
\* AgentMessage or raises
BranchReturn(i, model_key, msgs, role_id) ==
    /\ i \in DOMAIN bst
    /\ bst[i] = "inflight"
    /\ NoneScheduled
    /\ LET call == [spec |-> registry[model_key], messages |-> msgs]
       IN \E o \in call_local_model(call) :
            /\ Remember(call, o)
            /\ breply' = [breply EXCEPT ![i] = o]
            /\ finished' = Append(finished, i)
            /\ late' = IF pc = "failed" THEN late \cup {i} ELSE late
            /\ IF o.ok
               THEN /\ bst' = [bst EXCEPT ![i] = "done"]
                    /\ bmsg' = [bmsg EXCEPT ![i] =
                                  AgentMessage(role_id, model_key, "initial", o.text)]
                    /\ gather' = GatherOnReturn(i)
               ELSE /\ bst' = AfterRaise(i)
                    /\ bmsg' = bmsg
                    /\ gather' = GatherOnRaise("HTTPError")
    /\ UNCHANGED <<task, pc, err, messages, calls, sent, registry, returned, stub, prev, rerun,
                   mreply>>

----------------------------------------------------------------------------
(* frameworks/council.py                                                   *)

\* lines 31-36: the chair is invoked over the joined member messages
InvokeChair(t, member_msgs) ==
    /\ messages' = member_msgs
    /\ invoke_model(t.framework_config["chair"],
                    UserMessages(build_chair_prompt(t.question, member_msgs)),
                    "chair")

\* run_council up to its first suspension
run_council(t) ==
    LET cfg == t.framework_config IN
    /\ task' = t
    /\ UNCHANGED <<mreply, finished, late>>
    /\ IF "members" \notin DOMAIN cfg \/ "chair" \notin DOMAIN cfg
       THEN /\ Raise("KeyError")
            /\ UNCHANGED <<bst, bmsg, breply, gather, messages, calls, sent, registry>>
       ELSE /\ StartGather(Len(cfg["members"]))
            /\ IF cfg["members"] = <<>>
               THEN InvokeChair(t, <<>>)
               ELSE /\ pc' = "gather"
                    /\ Suspended
                    /\ UNCHANGED <<err, messages, calls, sent, registry>>

\* call_member, first step
CallMember(i) ==
    /\ task.framework = "council"
    /\ i \in DOMAIN bst
    /\ BranchCall(i, task.framework_config["members"][i].model,
                  UserMessages(task.question))

\* call_member, resumed by the backend
MemberReturn(i) ==
    /\ task.framework = "council"
    /\ i \in DOMAIN bst
    /\ BranchReturn(i, task.framework_config["members"][i].model,
                    UserMessages(task.question),
                    task.framework_config["members"][i].id)

\* run_council resumed by asyncio.gather
GatherMembers ==
    /\ task.framework = "council"
    /\ pc = "gather"
    /\ gather.state # "pending"
    /\ NoneScheduled
    /\ IF gather.state = "exception"
       THEN /\ Raise(gather.exc)
            /\ UNCHANGED <<messages, calls, sent, registry>>
       ELSE InvokeChair(task, gather_result)
    /\ UNCHANGED <<task, bst, bmsg, gather, stub, memo, prev, rerun,
                   breply, mreply, finished, late>>

\* run_council resumed by the chair's backend call
ChairReturn ==
    /\ task.framework = "council"
    /\ pc = "chair"
    /\ \E o \in call_local_model(MainCall) :
         /\ Remember(MainCall, o)
         /\ mreply' = Append(mreply, o)
         /\ IF o.ok
            THEN /\ returned' = Append(returned,
                      DecisionResult(task.id, o.text,
                          messages \o <<AgentMessage("chair",
                              task.framework_config["chair"], "synthesis", o.text)>>,
                          [framework |-> "council"]))
                 /\ pc' = "done"
                 /\ err' = err
            ELSE Raise("HTTPError")
    /\ UNCHANGED <<task, bst, bmsg, gather, messages, calls, sent, registry, stub, prev, rerun,
                   breply, finished, late>>

----------------------------------------------------------------------------
(* frameworks/ensemble.py                                                  *)

AgentRoleId_model_key(i) == task.framework_config["models"][i]

\* f"agent_{idx}" for the branch at position i (idx = i - 1)
AgentRoleId(i) == "agent_" \o IntToStr(i - 1)

\* lines 33-40: the aggregator is invoked over the joined agent messages
InvokeAggregator(t, agent_msgs) ==
    /\ messages' = agent_msgs
    /\ invoke_model(t.framework_config["aggregator"],
                    UserMessages(build_agg_prompt(agent_msgs)),
                    "aggregator")

\* run_ensemble up to its first suspension
run_ensemble(t) ==
    LET cfg == t.framework_config IN
    /\ task' = t
    /\ UNCHANGED <<mreply, finished, late>>
    /\ IF "models" \notin DOMAIN cfg \/ "aggregator" \notin DOMAIN cfg
       THEN /\ Raise("KeyError")
            /\ UNCHANGED <<bst, bmsg, breply, gather, messages, calls, sent, registry>>
       ELSE /\ StartGather(Len(cfg["models"]))
            /\ IF cfg["models"] = <<>>
               THEN InvokeAggregator(t, <<>>)
               ELSE /\ pc' = "gather"
                    /\ Suspended
                    /\ UNCHANGED <<err, messages, calls, sent, registry>>

\* call_model, first step
CallModel(i) ==
    /\ task.framework = "ensemble"
    /\ i \in DOMAIN bst
    /\ BranchCall(i, task.framework_config["models"][i],
                  UserMessages(task.question))

\* call_model, resumed by the backend
ModelReturn(i) ==
    /\ task.framework = "ensemble"
    /\ i \in DOMAIN bst
    /\ BranchReturn(i, task.framework_config["models"][i],
                    UserMessages(task.question), AgentRoleId(i))

\* run_ensemble resumed by asyncio.gather
GatherModels ==
    /\ task.framework = "ensemble"
    /\ pc = "gather"
    /\ gather.state # "pending"
    /\ NoneScheduled
    /\ IF gather.state = "exception"
       THEN /\ Raise(gather.exc)
            /\ UNCHANGED <<messages, calls, sent, registry>>
       ELSE InvokeAggregator(task, gather_result)
    /\ UNCHANGED <<task, bst, bmsg, gather, stub, memo, prev, rerun,
                   breply, mreply, finished, late>>

\* run_ensemble resumed by the aggregator's backend call
AggregatorReturn ==
    /\ task.framework = "ensemble"
    /\ pc = "aggregator"
    /\ \E o \in call_local_model(MainCall) :
         /\ Remember(MainCall, o)
         /\ mreply' = Append(mreply, o)
         /\ IF o.ok
            THEN /\ returned' = Append(returned,
                      DecisionResult(task.id, o.text,
                          messages \o <<AgentMessage("aggregator",
                              task.framework_config["aggregator"], "synthesis",
                              o.text)>>,
                          [framework |-> "ensemble"]))
                 /\ pc' = "done"
                 /\ err' = err
            ELSE Raise("HTTPError")
    /\ UNCHANGED <<task, bst, bmsg, gather, messages, calls, sent, registry, stub, prev, rerun,
                   breply, finished, late>>

----------------------------------------------------------------------------
(* frameworks/dxo.py                                                       *)

run_dxo_lazy(t) ==
    LET cfg == t.framework_config IN
    /\ task' = t
    /\ UNCHANGED <<bst, bmsg, gather, messages, breply, mreply, finished, late>>
    /\ IF "researcher" \notin DOMAIN cfg
       THEN /\ Raise("KeyError")
            /\ UNCHANGED <<calls, sent, registry>>
       ELSE invoke_model(cfg["researcher"],
                         UserMessages(research_prompt(t.question)), "research")

run_dxo_validating(t) ==
    LET cfg == t.framework_config IN
    /\ task' = t
    /\ UNCHANGED <<bst, bmsg, gather, messages, breply, mreply, finished, late>>
    /\ IF \E k \in {"researcher", "reviewer", "synthesizer"} : k \notin DOMAIN cfg
       THEN /\ Raise("KeyError")
            /\ UNCHANGED <<calls, sent, registry>>
       ELSE IF \E k \in {"researcher", "reviewer", "synthesizer"} : ~Known(cfg[k])
       THEN /\ Raise("ValueError: Unknown model")
            /\ UNCHANGED <<calls, sent, registry>>
       ELSE invoke_model(cfg["researcher"],
                         UserMessages(research_prompt(t.question)), "research")

run_dxo_concurrent(t) ==
    LET cfg == t.framework_config IN
    /\ task' = t
    /\ UNCHANGED <<bst, bmsg, gather, messages, breply, mreply, finished, late>>
    /\ IF \E k \in {"researcher", "reviewer", "synthesizer"} : k \notin DOMAIN cfg
       THEN /\ Raise("KeyError")
            /\ UNCHANGED <<calls, sent, registry>>
       ELSE IF Known(cfg["researcher"]) /\ Known(cfg["reviewer"])
       THEN LET r == UserMessages(research_prompt(t.question))
                c == UserMessages(critique_prompt(<<>>))
            IN /\ calls' = calls \o << [model_key |-> cfg["researcher"], messages |-> r],
                                       [model_key |-> cfg["reviewer"], messages |-> c] >>
               /\ sent' = sent \o << [spec |-> MODELS[cfg["researcher"]], messages |-> r],
                                     [spec |-> MODELS[cfg["reviewer"]], messages |-> c] >>
               /\ registry' = registry
               /\ pc' = "research"
               /\ err' = err
               /\ Suspended
       ELSE invoke_model(cfg["researcher"],
                         UserMessages(research_prompt(t.question)), "research")

\* run_dxo up to its first suspension
run_dxo(t) ==
    LET cfg == t.framework_config IN
    /\ task' = t
    /\ UNCHANGED <<bst, bmsg, gather, messages, breply, mreply, finished, late>>
    /\ IF \E k \in {"researcher", "reviewer", "synthesizer"} : k \notin DOMAIN cfg
       THEN /\ Raise("KeyError")
            /\ UNCHANGED <<calls, sent, registry>>
       ELSE invoke_model(cfg["researcher"],
                         UserMessages(research_prompt(t.question)), "research")

\* run_dxo resumed by the researcher's backend call
ResearchReturn ==
    /\ task.framework = "dxo"
    /\ pc = "research"
    /\ \E o \in call_local_model(MainCall) :
         /\ Remember(MainCall, o)
         /\ mreply' = Append(mreply, o)
         /\ IF o.ok
            THEN /\ messages' = Append(messages,
                      AgentMessage("researcher", task.framework_config["researcher"],
                                   "initial", o.text))
                 /\ invoke_model(task.framework_config["reviewer"],
                                 UserMessages(critique_prompt(o.text)), "critique")
            ELSE /\ Raise("HTTPError")
                 /\ UNCHANGED <<messages, calls, sent, registry>>
    /\ UNCHANGED <<task, bst, bmsg, gather, stub, prev, rerun, breply, finished, late>>

\* run_dxo resumed by the reviewer's backend call
CritiqueReturn ==
    /\ task.framework = "dxo"
    /\ pc = "critique"
    /\ \E o \in call_local_model(MainCall) :
         /\ Remember(MainCall, o)
         /\ mreply' = Append(mreply, o)
         /\ IF o.ok
            THEN /\ messages' = Append(messages,
                      AgentMessage("reviewer", task.framework_config["reviewer"],
                                   "critique", o.text))
                 /\ invoke_model(task.framework_config["synthesizer"],
                                 UserMessages(synthesis_prompt(task.question,
                                     messages[1].content, o.text)),
                                 "synthesis")
            ELSE /\ Raise("HTTPError")
                 /\ UNCHANGED <<messages, calls, sent, registry>>
    /\ UNCHANGED <<task, bst, bmsg, gather, stub, prev, rerun, breply, finished, late>>

\* run_dxo resumed by the synthesizer's backend call
SynthesisReturn ==
    /\ task.framework = "dxo"
    /\ pc = "synthesis"
    /\ \E o \in call_local_model(MainCall) :
         /\ Remember(MainCall, o)
         /\ mreply' = Append(mreply, o)
         /\ IF o.ok
            THEN /\ messages' = Append(messages,
                      AgentMessage("synthesizer", task.framework_config["synthesizer"],
                                   "synthesis", o.text))
                 /\ returned' = Append(returned,
                      DecisionResult(task.id, o.text, messages',
                                     [framework |-> "dxo"]))
                 /\ pc' = "done"
                 /\ err' = err
            ELSE /\ Raise("HTTPError")
                 /\ UNCHANGED messages
    /\ UNCHANGED <<task, bst, bmsg, gather, calls, sent, registry, stub, prev, rerun,
                   breply, finished, late>>

----------------------------------------------------------------------------
(* The tasks a caller dispatches.                                          *)

\* a config without key k
Without(cfg, k) == [x \in (DOMAIN cfg) \ {k} |-> cfg[x]]

WithMissing(cfgs) == cfgs \cup { Without(c, k) : c \in cfgs, k \in UNION { DOMAIN c : c \in cfgs } }

CouncilConfigs ==
    WithMissing([members : SeqsUpTo(Members, MaxMembers), chair : ModelKeys])

DxoConfigs ==
    WithMissing([researcher : ModelKeys, reviewer : ModelKeys,
                 synthesizer : ModelKeys])

EnsembleConfigs ==
    WithMissing([models : SeqsUpTo(ModelKeys, MaxMembers), aggregator : ModelKeys])

TasksOf(framework, cfgs) ==
    { DecisionTask(id, q, framework, c) : id \in TaskIds, q \in Questions, c \in cfgs }

\* a re-run dispatches the task of the previous run again; an ensemble may be
\* re-run over another list of as many models
IsRerunOf(t, p) ==
    /\ t.id = p.id
    /\ t.question = p.question
    /\ t.framework = p.framework
    /\ DOMAIN t.framework_config = DOMAIN p.framework_config
    /\ \A k \in DOMAIN t.framework_config :
         IF t.framework = "ensemble" /\ k = "models"
         THEN Len(t.framework_config[k]) = Len(p.framework_config[k])
         ELSE t.framework_config[k] = p.framework_config[k]

Dispatchable(t) ==
    /\ pc = "idle"
    /\ rerun => IsRerunOf(t, prev.task)

Dispatched == UNCHANGED <<stub, memo, prev, rerun>>

\* a caller awaits run_council(task)
CallCouncil(t) ==
    /\ Dispatchable(t)
    /\ run_council(t)
    /\ Dispatched

\* a caller awaits run_dxo(task)
CallDxo(t) ==
    /\ Dispatchable(t)
    /\ run_dxo(t)
    /\ Dispatched

\* a caller awaits run_ensemble(task)
CallEnsemble(t) ==
    /\ Dispatchable(t)
    /\ run_ensemble(t)
    /\ Dispatched

----------------------------------------------------------------------------
(* cli/main.py                                                             *)

CliCouncilConfig ==
    [members |-> << [id |-> "alpha", model |-> "small"],
                    [id |-> "beta", model |-> "large"] >>,
     chair |-> "large"]

CliDxoConfig ==
    [researcher |-> "small", reviewer |-> "small", synthesizer |-> "large"]

CliEnsembleConfig == [models |-> <<"small", "large">>, aggregator |-> "large"]

main_fallback(framework, id, question) ==
    /\ pc = "idle"
    /\ rerun => /\ framework = prev.task.framework
                /\ id = prev.task.id
                /\ question = prev.task.question
    /\ IF framework = "council"
       THEN run_council(DecisionTask(id, question, framework, CliCouncilConfig))
       ELSE IF framework = "dxo"
       THEN run_dxo(DecisionTask(id, question, framework, CliDxoConfig))
       ELSE IF framework = "ensemble"
       THEN run_ensemble(DecisionTask(id, question, framework, CliEnsembleConfig))
       ELSE run_dxo(DecisionTask(id, question, framework, CliDxoConfig))
    /\ Dispatched

\* main(): framework = sys.argv[1], question = the rest, id = a uuid
main(framework, id, question) ==
    /\ pc = "idle"
    /\ rerun => /\ framework = prev.task.framework
                /\ id = prev.task.id
                /\ question = prev.task.question
    /\ IF framework = "council"
       THEN run_council(DecisionTask(id, question, framework, CliCouncilConfig))
       ELSE IF framework = "dxo"
       THEN run_dxo(DecisionTask(id, question, framework, CliDxoConfig))
       ELSE IF framework = "ensemble"
       THEN run_ensemble(DecisionTask(id, question, framework, CliEnsembleConfig))
       ELSE /\ task' = DecisionTask(id, question, framework, <<>>)
            /\ Raise("ValueError: Unknown framework")
            /\ UNCHANGED <<bst, bmsg, gather, messages, calls, sent, registry,
                           breply, mreply, finished, late>>
    /\ Dispatched

\* the run is over and the caller starts again: the loop of the old run is
\* closed, whatever was still in flight is dropped
Rerun ==
    /\ pc \in {"done", "failed"}
    /\ stub
    /\ ~rerun
    /\ prev' = [task |-> task, calls |-> calls, messages |-> messages,
                returned |-> returned]
    /\ pc' = "idle"
    /\ err' = ""
    /\ bst' = <<>>
    /\ bmsg' = <<>>
    /\ gather' = NoGather
    /\ messages' = <<>>
    /\ calls' = <<>>
    /\ sent' = <<>>
    /\ returned' = <<>>
    /\ breply' = <<>>
    /\ mreply' = <<>>
    /\ finished' = <<>>
    /\ late' = {}
    /\ rerun' = TRUE
    /\ UNCHANGED <<task, stub, memo, registry>>

----------------------------------------------------------------------------

Next ==
    \/ \E t \in TasksOf("council", CouncilConfigs) : CallCouncil(t)
    \/ \E t \in TasksOf("dxo", DxoConfigs) : CallDxo(t)
    \/ \E t \in TasksOf("ensemble", EnsembleConfigs) : CallEnsemble(t)
    \/ \E f \in FrameworkNames, id \in TaskIds, q \in Questions : main(f, id, q)
    \/ \E i \in 1..(MaxMembers + 1) : CallMember(i)
    \/ \E i \in 1..(MaxMembers + 1) : MemberReturn(i)
    \/ GatherMembers
    \/ ChairReturn
    \/ \E i \in 1..(MaxMembers + 1) : CallModel(i)
    \/ \E i \in 1..(MaxMembers + 1) : ModelReturn(i)
    \/ GatherModels
    \/ AggregatorReturn
    \/ ResearchReturn
    \/ CritiqueReturn
    \/ SynthesisReturn
    \/ Rerun

Spec == Init /\ [][Next]_vars

----------------------------------------------------------------------------
(* Properties.                                                             *)

Succeeded == returned # <<>>

FanOut == task.framework \in {"council", "ensemble"}

StartedBranches == { i \in DOMAIN bst : bst[i] # "scheduled" }

\* C1: a successful run_council returns, whatever order the member calls
\* finished in, the member records in configured order (role id and model
\* key of the i-th configured member, stage "initial", the text the backend
\* answered to that member's own call) followed by exactly one record of
\* the chair with stage "synthesis".
C1_CouncilTraceOrder ==
    (task.framework = "council" /\ Succeeded) =>
        LET ms == task.framework_config["members"]
            tr == returned[1].messages
            n == Len(ms)
        IN /\ Len(tr) = n + 1
           /\ \A i \in 1..n :
                /\ breply[i].ok
                /\ tr[i] = AgentMessage(ms[i].id, ms[i].model, "initial",
                                        breply[i].text)
           /\ tr[n + 1].role_id = "chair"
           /\ tr[n + 1].stage = "synthesis"

\* a council of two succeeded although the second member answered first,
\* and with another text than the first
C1_Witness ==
    /\ task.framework = "council"
    /\ Succeeded
    /\ finished = <<2, 1>>
    /\ breply[1].text # breply[2].text

\* C2: once a fan-out branch of run_council or run_ensemble has failed, the
\* chair / aggregator is never invoked (every invoke_model call is a
\* branch's) and no result is returned, whatever the other branches do.
C2_AllOrNothing ==
    (FanOut /\ \E i \in DOMAIN bst : bst[i] = "raised") =>
        /\ returned = <<>>
        /\ Len(calls) = Cardinality(StartedBranches)
        /\ pc \in {"gather", "failed"}

\* the run failed on one branch while another branch had answered
C2_Witness ==
    /\ FanOut
    /\ pc = "failed"
    /\ \E i, j \in DOMAIN bst : bst[i] = "raised" /\ bst[j] = "done"

\* stage k of run_dxo failed: its key is unknown or its backend call raised
StageFailed(k) ==
    /\ Len(calls) >= k
    /\ \/ ~Known(calls[k].model_key)
       \/ Len(mreply) >= k /\ ~mreply[k].ok

\* C3: when stage k of run_dxo fails the run has failed, the k-th call is
\* the last invoke_model call there ever is, and no result is returned.
C3_DxoFailStop ==
    task.framework = "dxo" =>
        \A k \in 1..3 :
            StageFailed(k) =>
                /\ pc = "failed"
                /\ Len(calls) = k
                /\ returned = <<>>

\* the critique stage failed after the research stage had succeeded
C3_Witness ==
    /\ task.framework = "dxo"
    /\ StageFailed(2)
    /\ mreply[1].ok

\* the prompt of an invoke_model call: the content of its last message
Prompt(call) == call.messages[Len(call.messages)].content

\* C4: a successful run_dxo has made exactly three invoke_model calls, to the
\* researcher, the reviewer and the synthesizer in this order; the second
\* prompt contains the text the first call returned, the third prompt
\* contains the question and the texts the first and the second call
\* returned.
C4_DxoSequential ==
    (task.framework = "dxo" /\ Succeeded) =>
        LET cfg == task.framework_config IN
        /\ Len(calls) = 3
        /\ Len(mreply) = 3
        /\ calls[1].model_key = cfg["researcher"]
        /\ calls[2].model_key = cfg["reviewer"]
        /\ calls[3].model_key = cfg["synthesizer"]
        /\ Contains(Prompt(calls[2]), mreply[1].text)
        /\ Contains(Prompt(calls[3]), task.question)
        /\ Contains(Prompt(calls[3]), mreply[1].text)
        /\ Contains(Prompt(calls[3]), mreply[2].text)

\* run_dxo succeeded over three different texts and two different models
C4_Witness ==
    /\ task.framework = "dxo"
    /\ Succeeded
    /\ mreply[1].text # mreply[2].text
    /\ task.framework_config["researcher"] # task.framework_config["reviewer"]

\* "agent_<position>", counted from 0
AnonymousIds == <<"agent_0", "agent_1", "agent_2", "agent_3">>

\* C5: in a successful run_ensemble the i-th record has the role id
\* "agent_<i>" of its position, never a model key, and as content the text
\* the backend answered to the call of the i-th model, whatever order the
\* branches finished in; the last record is the aggregator's, with stage
\* "synthesis".
C5_EnsembleAnonymous ==
    (task.framework = "ensemble" /\ Succeeded) =>
        LET tr == returned[1].messages
            n == Len(task.framework_config["models"])
        IN /\ Len(tr) = n + 1
           /\ \A i \in 1..n :
                /\ tr[i].role_id = AnonymousIds[i]
                /\ tr[i].role_id \notin ModelKeys
                /\ breply[i].ok
                /\ tr[i].content = breply[i].text
           /\ tr[n + 1].role_id = "aggregator"
           /\ tr[n + 1].stage = "synthesis"

\* an ensemble of two different models succeeded although the second
\* answered first, and with another text than the first
C5_Witness ==
    /\ task.framework = "ensemble"
    /\ Succeeded
    /\ finished = <<2, 1>>
    /\ breply[1].text # breply[2].text
    /\ task.framework_config["models"][1] # task.framework_config["models"][2]

\* run_ensemble of task t, having made the calls cs, has invoked the aggregator
AggregatorInvoked(t, cs) ==
    /\ t.framework = "ensemble"
    /\ {"models", "aggregator"} \subseteq DOMAIN t.framework_config
    /\ Len(cs) = Len(t.framework_config["models"]) + 1

Contents(ms) == [i \in DOMAIN ms |-> ms[i].content]

\* C6: two runs of run_ensemble whose branches returned the same contents at
\* the same positions send the same prompt to the aggregator, whatever
\* their model lists are; and no model key occurs in that prompt (the
\* backend texts of the model contain none).
C6_ModelIdentityWithheld ==
    /\ (/\ rerun
        /\ AggregatorInvoked(task, calls)
        /\ AggregatorInvoked(prev.task, prev.calls)
        /\ Contents(messages) = Contents(prev.messages))
       => Prompt(calls[Len(calls)]) = Prompt(prev.calls[Len(prev.calls)])
    /\ AggregatorInvoked(task, calls)
       => \A k \in ModelKeys : ~Contains(Prompt(calls[Len(calls)]), <<k>>)

\* both runs reached the aggregator over two branches with the same
\* contents, and their model lists differ
C6_Witness ==
    /\ rerun
    /\ AggregatorInvoked(task, calls)
    /\ AggregatorInvoked(prev.task, prev.calls)
    /\ Len(messages) = 2
    /\ Contents(messages) = Contents(prev.messages)
    /\ task.framework_config["models"] # prev.task.framework_config["models"]

KnownFrameworks == {"council", "dxo", "ensemble"}

\* C7: dispatching a framework name that is none of council, dxo, ensemble
\* fails with the unknown-framework error, and no invoke_model call and no
\* backend call is made, before or after.
C7_BadTopologyFailsFast ==
    (pc # "idle" /\ task.framework \notin KnownFrameworks) =>
        /\ pc = "failed"
        /\ err = "ValueError: Unknown framework"
        /\ calls = <<>>
        /\ sent = <<>>
        /\ returned = <<>>

\* "quorum" was dispatched
C7_Witness ==
    /\ task.framework = "quorum"
    /\ pc = "failed"

RequiredKeys(framework) ==
    CASE framework = "council" -> {"members", "chair"}
      [] framework = "dxo" -> {"researcher", "reviewer", "synthesizer"}
      [] framework = "ensemble" -> {"models", "aggregator"}

\* C8: a run whose config lacks a required key of its framework has failed
\* with the missing-key error, and no invoke_model call has been made (no
\* branch even scheduled).
C8_MissingConfigFirst ==
    (/\ pc # "idle"
     /\ task.framework \in KnownFrameworks
     /\ ~(RequiredKeys(task.framework) \subseteq DOMAIN task.framework_config))
    => /\ pc = "failed"
       /\ err = "KeyError"
       /\ calls = <<>>
       /\ sent = <<>>
       /\ bst = <<>>
       /\ returned = <<>>

\* run_dxo was given a config whose last-read key is the only one missing
C8_Witness ==
    /\ task.framework = "dxo"
    /\ pc = "failed"
    /\ DOMAIN task.framework_config = {"researcher", "reviewer"}

SameTask(a, b) ==
    /\ a.id = b.id
    /\ a.question = b.question
    /\ a.framework = b.framework
    /\ DOMAIN a.framework_config = DOMAIN b.framework_config
    /\ \A k \in DOMAIN a.framework_config :
         a.framework_config[k] = b.framework_config[k]

Finished == pc \in {"done", "failed"}

\* C9: under a stub that is a pure function of (model key, messages), the
\* re-run of a task with the same config ends as the first run did: both
\* return the same result (final answer and trace), or neither returns
\* one, however the branches interleave.
C9_Deterministic ==
    (rerun /\ stub /\ Finished /\ SameTask(task, prev.task)) =>
        returned = prev.returned

\* the re-run of a council of two succeeded with the second member
\* answering first and another text than the first
C9_Witness ==
    /\ rerun
    /\ stub
    /\ SameTask(task, prev.task)
    /\ task.framework = "council"
    /\ Succeeded
    /\ prev.returned # <<>>
    /\ finished = <<2, 1>>
    /\ breply[1].text # breply[2].text

\* the number of backend calls the framework coroutine awaits itself
MainStages == IF task.framework = "dxo" THEN 3 ELSE 1

\* C10: a run returns at most one result, and only when it is done and its
\* final call (chair, synthesizer, aggregator) has succeeded; the answer is
\* that call's text; a failed run has returned nothing.
C10_NoPartialResult ==
    /\ Len(returned) <= 1
    /\ Succeeded =>
         /\ pc = "done"
         /\ Len(mreply) = MainStages
         /\ mreply[MainStages].ok
         /\ returned[1].final_answer = mreply[MainStages].text
    /\ pc = "failed" => returned = <<>>

\* the chair's call failed after both members had answered
C10_Witness ==
    /\ task.framework = "council"
    /\ pc = "failed"
    /\ Len(bst) = 2
    /\ \A i \in DOMAIN bst : bst[i] = "done"
    /\ Len(mreply) = 1
    /\ ~mreply[1].ok


UnknownModel == "ValueError: Unknown model"

DxoRoles == <<"researcher", "reviewer", "synthesizer">>

\* the model key configured for the i-th fan-out branch / for the reduce call
BranchKey(i) ==
    IF task.framework = "council"
    THEN task.framework_config["members"][i].model
    ELSE task.framework_config["models"][i]

ReduceKey ==
    IF task.framework = "council"
    THEN task.framework_config["chair"]
    ELSE task.framework_config["aggregator"]

\* C11: an unknown model key is raised where it is used: the backend is
\* called once for every invoke_model call with a registered key and never
\* for an unknown one; a run_dxo that failed with the unknown-model error
\* failed in the call of the first role whose key is unknown, after the
\* calls of all earlier roles had returned (an unknown reviewer: exactly one
\* completed call); a fan-out run with registered branch keys that failed
\* with it failed in the chair / aggregator call, after every branch had
\* returned.
C11_UnknownModelAtPointOfUse ==
    /\ Len(sent) = Cardinality({ i \in DOMAIN calls : Known(calls[i].model_key) })
    /\ (task.framework = "dxo" /\ err = UnknownModel) =>
          LET k == Len(calls) IN
          /\ k >= 1
          /\ calls[k].model_key = task.framework_config[DxoRoles[k]]
          /\ ~Known(calls[k].model_key)
          /\ Len(mreply) = k - 1
          /\ \A j \in 1..(k - 1) : Known(calls[j].model_key) /\ mreply[j].ok
    /\ (FanOut /\ err = UnknownModel
           /\ \A i \in DOMAIN bst : Known(BranchKey(i))) =>
          /\ ~Known(ReduceKey)
          /\ Len(calls) = Len(bst) + 1
          /\ calls[Len(calls)].model_key = ReduceKey
          /\ \A i \in DOMAIN bst : bst[i] = "done" /\ breply[i].ok

\* run_dxo failed on its unknown reviewer after the researcher's call, the
\* only backend call, had returned its text
C11_Witness ==
    /\ task.framework = "dxo"
    /\ err = UnknownModel
    /\ Len(calls) = 2
    /\ Len(sent) = 1
    /\ mreply = << [ok |-> TRUE, text |-> <<"yes">>] >>

\* the fan-out list of the task: the council's members, the ensemble's models
BranchList ==
    IF task.framework = "council"
    THEN task.framework_config["members"]
    ELSE task.framework_config["models"]

Dispatched_EmptyList ==
    /\ FanOut
    /\ pc # "idle"
    /\ RequiredKeys(task.framework) \subseteq DOMAIN task.framework_config
    /\ BranchList = <<>>

\* C12: a council task with an empty members list, or an ensemble task with
\* an empty models list, is rejected at dispatch: the run has failed, no
\* invoke_model call has been made (the chair / aggregator is not invoked)
\* and no result is returned.
C12_EmptyListRejected ==
    Dispatched_EmptyList =>
        /\ pc = "failed"
        /\ calls = <<>>
        /\ returned = <<>>

\* the fan-out stage is over: the framework coroutine has been resumed by
\* the gather over at least one branch
Resumed ==
    /\ FanOut
    /\ bst # <<>>
    /\ pc \notin {"idle", "gather"}

\* C13 as stated: once the fan-out stage of run_council / run_ensemble has
\* resumed, with the results or with a failure, every branch invocation had
\* been launched and every branch has produced its result or raised.
C13_JoinWaitsForAll ==
    Resumed =>
        \A i \in DOMAIN bst : bst[i] \in {"done", "raised"}

\* C13, amended: once the fan-out stage has resumed, every branch invocation
\* had been launched; it resumed with the results only if every branch has
\* produced one, and otherwise a branch has raised and the run has failed
\* with a branch's exception, whatever the other branches are doing.
C13_LaunchAndJoin ==
    Resumed =>
        /\ \A i \in DOMAIN bst : bst[i] # "scheduled"
        /\ IF \E i \in DOMAIN bst : bst[i] = "raised"
           THEN /\ pc = "failed"
                /\ err \in {UnknownModel, "HTTPError"}
                /\ Len(calls) = Len(bst)
           ELSE \A i \in DOMAIN bst : bst[i] = "done"

\* the gather handed the first branch's exception to the framework coroutine
\* while the second branch, launched before, was still waiting for the
\* backend
C13_Witness ==
    /\ Resumed
    /\ pc = "failed"
    /\ Len(bst) = 2
    /\ bst[1] = "raised"
    /\ bst[2] = "inflight"

\* C14: nothing cancels a fan-out branch: a branch in flight stays in flight
\* until the backend has answered its own call, also when a sibling raises
\* and when the run fails meanwhile; and a branch that ended after the run
\* had failed ended in a run that returns no result, so its output is in no
\* result.
C14_NoCancellation ==
    /\ [][\A i \in DOMAIN bst :
            (bst[i] = "inflight" /\ pc' # "idle") =>
                \/ bst'[i] = "inflight"
                \/ /\ bst'[i] \in {"done", "raised"}
                   /\ breply'[i] # NoReply
                   /\ finished' = Append(finished, i)]_vars
    /\ [](late # {} => (pc = "failed" /\ returned = <<>>))

\* the run failed on its first branch while the second was in flight; the
\* second branch then got its answer from the backend and returned
C14_Witness ==
    /\ FanOut
    /\ pc = "failed"
    /\ bst = <<"raised", "done">>
    /\ late = {2}
    /\ breply[2].ok
    /\ returned = <<>>

KnownCall(c) == Known(c.model_key)

InFlight == Len(sent) - Len(mreply)

\* C16: in a run of run_dxo at most one model invocation is in flight (there
\* are no branch tasks; one backend call is open exactly while the coroutine
\* is suspended in a stage), and the invocation of stage n has started only
\* if the invocation of stage n-1 has ended and returned a text.
C16_DxoStagesNeverOverlap ==
    task.framework = "dxo" =>
        /\ bst = <<>>
        /\ InFlight \in {0, 1}
        /\ InFlight = 1 <=> pc \in {"research", "critique", "synthesis"}
        /\ \A n \in 2..Len(calls) :
             /\ Len(mreply) >= n - 1
             /\ mreply[n - 1].ok

\* the reviewer's call is the one call in flight, after the researcher's
\* call had returned its text
C16_Witness ==
    /\ task.framework = "dxo"
    /\ pc = "critique"
    /\ Len(calls) = 2
    /\ InFlight = 1
    /\ mreply[1].ok

\* the invoke_model calls made for the chair / aggregator: those that are
\* not the first call of a started branch
ReduceCalls == Len(calls) - Cardinality(StartedBranches)

\* C17: in run_council / run_ensemble the chair / aggregator is invoked at
\* most once, exactly once in a successful run, and only when every branch
\* has returned its result; while the coroutine waits for the chair /
\* aggregator no branch is in flight.
C17_ReduceAfterJoin ==
    (FanOut /\ pc # "idle") =>
        /\ ReduceCalls \in {0, 1}
        /\ Succeeded => ReduceCalls = 1
        /\ ReduceCalls = 1 =>
             \A i \in DOMAIN bst : bst[i] = "done" /\ breply[i].ok
        /\ pc \in {"chair", "aggregator"} =>
             /\ ReduceCalls = 1
             /\ \A i \in DOMAIN bst : bst[i] # "inflight"

\* the chair is in flight after both members returned, the second first
C17_Witness ==
    /\ task.framework = "council"
    /\ pc = "chair"
    /\ bst = <<"done", "done">>
    /\ finished = <<2, 1>>
    /\ ReduceCalls = 1

\* C18: no agent position is invoked twice: the k-th invoke_model call of a
\* run is the call of the k-th position (run_dxo: researcher, reviewer,
\* synthesizer; fan-out: the branches in configured order, then the chair /
\* aggregator), a call that failed is the last call of its position, and
\* during the fan-out stage there is exactly one call per started branch;
\* in a successful run the number of calls is the length of the trace: 3
\* for run_dxo, the length of the members / models list plus one otherwise.
C18_OneCallPerPosition ==
    /\ task.framework = "dxo" =>
         /\ Len(calls) <= 3
         /\ \A k \in DOMAIN calls :
              calls[k].model_key = task.framework_config[DxoRoles[k]]
         /\ \A k \in DOMAIN mreply : ~mreply[k].ok => Len(calls) = k
    /\ (FanOut /\ pc # "idle") =>
         LET n == Len(bst) IN
         /\ Len(calls) <= n + 1
         /\ \A k \in DOMAIN calls :
              calls[k].model_key = IF k <= n THEN BranchKey(k) ELSE ReduceKey
         /\ pc = "gather" => Len(calls) = Cardinality(StartedBranches)
         /\ \A k \in DOMAIN mreply : ~mreply[k].ok => Len(calls) = n + 1
    /\ Succeeded =>
         /\ Len(calls) = Len(returned[1].messages)
         /\ Len(calls) = IF task.framework = "dxo" THEN 3 ELSE Len(BranchList) + 1

\* an ensemble of two models succeeded with three calls and three records
C18_Witness ==
    /\ task.framework = "ensemble"
    /\ Succeeded
    /\ Len(BranchList) = 2
    /\ Len(calls) = 3
    /\ Len(returned[1].messages) = 3

\* the role id of the record that carries the final answer
FinalRole ==
    CASE task.framework = "council" -> "chair"
      [] task.framework = "dxo" -> "synthesizer"
      [] task.framework = "ensemble" -> "aggregator"

\* C19: in every result a run returns, the final answer is the content of
\* the last record of the trace; that record has stage "synthesis" and the
\* role id "chair" (council), "synthesizer" (dxo) or "aggregator"
\* (ensemble), no other record has stage "synthesis", and the result's task
\* id is the id of the dispatched task.
C19_FinalAnswerIsLastRecord ==
    \A r \in DOMAIN returned :
        LET tr == returned[r].messages
            n == Len(tr)
        IN /\ n >= 1
           /\ returned[r].final_answer = tr[n].content
           /\ tr[n].stage = "synthesis"
           /\ tr[n].role_id = FinalRole
           /\ \A k \in 1..n : tr[k].stage = "synthesis" => k = n
           /\ returned[r].task_id = task.id

\* run_dxo returned a result whose final answer differs from the content of
\* the first record of its trace
C19_Witness ==
    /\ task.framework = "dxo"
    /\ Succeeded
    /\ Len(returned[1].messages) = 3
    /\ returned[1].final_answer # returned[1].messages[1].content
    /\ returned[1].task_id = "t1"

\* run_council has invoked the chair
ChairInvoked ==
    /\ task.framework = "council"
    /\ pc # "idle"
    /\ {"members", "chair"} \subseteq DOMAIN task.framework_config
    /\ Len(calls) = Len(bst) + 1

\* the chair instruction, the question and the heading of the expert inputs
ChairHead ==
    <<"You are the chair of an expert council.",
      "Summarize consensus, disagreements, and give a final recommendation.",
      "Question:">> \o task.question \o <<"Expert inputs:">>

\* the entry of the i-th configured member: its role id, then the text the
\* backend answered to its call
ChairEntry(i) ==
    <<task.framework_config["members"][i].id, ":">> \o breply[i].text

\* where the entry of the i-th member ends in the chair prompt
RECURSIVE ChairEntryEnd(_)
ChairEntryEnd(i) ==
    IF i = 0 THEN Len(ChairHead) ELSE ChairEntryEnd(i - 1) + Len(ChairEntry(i))

\* C20: the chair is sent one user message; it begins with the chair
\* instruction and the literal question, then holds one entry per member,
\* the member's role id and the text its call returned, the i-th entry being
\* the i-th configured member's (as in the trace) whatever order the
\* branches finished in, and nothing else; no member's model key occurs in
\* it.
C20_ChairPrompt ==
    ChairInvoked =>
        LET ms == task.framework_config["members"]
            n == Len(ms)
            call == calls[n + 1]
            p == Prompt(call)
        IN /\ Len(call.messages) = 1
           /\ call.messages[1].role = "user"
           /\ SubSeq(p, 1, Len(ChairHead)) = ChairHead
           /\ Contains(ChairHead, task.question)
           /\ \A i \in 1..n :
                /\ SubSeq(p, ChairEntryEnd(i - 1) + 1, ChairEntryEnd(i))
                     = ChairEntry(i)
                /\ messages[i].role_id = ms[i].id
                /\ ~Contains(p, <<ms[i].model>>)
           /\ Len(p) = ChairEntryEnd(n)

\* the chair of a council of two was invoked after the second member had
\* answered first, and with another text than the first
C20_Witness ==
    /\ ChairInvoked
    /\ pc = "chair"
    /\ finished = <<2, 1>>
    /\ breply[1].text # breply[2].text
    /\ task.framework_config["members"][1].model
         # task.framework_config["members"][2].model

\* every invoke_model call so far was given one fresh user message
OneUserMessage ==
    \A k \in DOMAIN calls :
        /\ Len(calls[k].messages) = 1
        /\ calls[k].messages[1].role = "user"

\* what reaches a later stage of run_dxo: the question and the texts the
\* earlier calls returned, in the fixed frame of the stage's prompt
ThreadedTexts ==
    task.framework = "dxo" =>
        /\ Len(calls) >= 1 => Prompt(calls[1]) = <<"Research:">> \o task.question
        /\ Len(calls) >= 2 =>
             Prompt(calls[2]) = <<"Critique this research:">> \o mreply[1].text
        /\ Len(calls) >= 3 =>
             Prompt(calls[3]) =
                 <<"Question:">> \o task.question
                 \o <<"Research:">> \o mreply[1].text
                 \o <<"Critique:">> \o mreply[2].text
                 \o <<"Produce a final decision with caveats.">>

\* C21: from its dispatch on a run leaves the task as it is (id, question,
\* framework and config), also when it ends; no step changes the registry,
\* which holds the entries of MODELS throughout, whether a key is found in
\* it or not; and a stage gets nothing from an earlier one but text: every
\* call is given one new user message, and the prompts of run_dxo are made
\* of the question and the texts of the earlier calls only.
C21_TaskAndRegistryUnchanged ==
    /\ [][pc # "idle" => task' = task]_vars
    /\ [][registry' = registry]_vars
    /\ [](registry = MODELS)
    /\ [](OneUserMessage /\ ThreadedTexts)

\* run_dxo failed on its unknown synthesizer after two calls on registered
\* keys had returned their texts: the task and the registry are as they were
C21_Witness ==
    /\ task.framework = "dxo"
    /\ pc = "failed"
    /\ err = UnknownModel
    /\ Len(calls) = 3
    /\ mreply[1].text # mreply[2].text
    /\ task.framework_config["synthesizer"] = "ghost"
    /\ registry = MODELS

\* the fan-out branches whose configured model key is not in the registry
UnknownBranches == { i \in DOMAIN bst : ~Known(BranchKey(i)) }

\* the backend call a branch makes: the spec of its key, the question
BranchBackendCall(i) ==
    [spec |-> MODELS[BranchKey(i)], messages |-> UserMessages(task.question)]

\* C22: when exactly one branch of run_council / run_ensemble is configured
\* with an unknown model key, then, wherever it stands in the list, by the
\* time the fan-out stage is over the backend call of every other branch
\* has been launched (the backend calls made are exactly theirs, in
\* configured order), while the run has failed with the unknown-model error
\* and returns no result.
C22_SiblingsOfUnknownKeyLaunched ==
    (Resumed /\ Cardinality(UnknownBranches) = 1) =>
        LET others == SelectSeq([i \in DOMAIN bst |-> i],
                                LAMBDA i : i \notin UnknownBranches)
        IN /\ pc = "failed"
           /\ err = UnknownModel
           /\ returned = <<>>
           /\ \A i \in DOMAIN bst :
                IF i \in UnknownBranches
                THEN bst[i] = "raised" /\ breply[i] = NoReply
                ELSE bst[i] \in {"inflight", "done", "raised"}
           /\ Len(calls) = Len(bst)
           /\ sent = [k \in DOMAIN others |-> BranchBackendCall(others[k])]

\* the first of two members has the unknown key: the run has failed on it,
\* and the backend call of the second member, launched after the first had
\* raised, is in flight
C22_Witness ==
    /\ Resumed
    /\ task.framework = "council"
    /\ UnknownBranches = {1}
    /\ bst = <<"raised", "inflight">>
    /\ finished = <<1>>
    /\ Len(sent) = 1
    /\ pc = "failed"

====
